---------------------------- MODULE Spec2Model ----------------------------
(***************************************************************************)
(* A model of the Kademlia-style DHT of dht/dht.go: the iterative walk     *)
(* (seeding, dispatch loop, result collection, closest-unchanged check),   *)
(* the entry points built on it (Put, Get) and the two inbound             *)
(* request handlers.  Every node of the network runs the same code; one    *)
(* walk is in progress at a time, its RPC completions arrive in any order. *)
(* The walk blocks on its results channel for the whole of a wave, so the  *)
(* step in which a peer answers a request is also the step in which the    *)
(* walk receives that answer.                                              *)
(***************************************************************************)
EXTENDS Naturals, Integers, Sequences, FiniteSets, TLC

(***************************************************************************)
(* Program constants.                                                      *)
(***************************************************************************)
alpha == 3
k == 20

(***************************************************************************)
(* Bounds of the model.                                                    *)
(***************************************************************************)
\* Width of an identifier in bits (256 in the program).
IdBits == 4
\* At most this many nodes of the network misbehave.
MaxFaulty == 1
\* At most this many client operations are started.
MaxOps == 2
\* A walk runs at most this many dispatch loops.
MaxWaves == 8

\* The identifiers of the nodes of the network, and those of a wider one.
Nodes == {1, 2, 4, 7}
WideNodes == Nodes \cup {8, 9, 10}

\* The values clients publish; Forged is what a lying peer answers with.
Values == {"x"}
Forged == "bad"
NoValue == ""

\* How a node treats the packets addressed to it.
\*   ok      : every packet is delivered and answered
\*   silent  : packets are accepted by the sender's transport and then dropped
\*   senderr : the sender's transport fails synchronously
\*   liar    : as ok, but FIND_VALUE is answered with a forged value
Modes == {"ok", "silent", "senderr", "liar"}

\* The zero NodeID: no node's identifier and no key.
NoNode == CHOOSE n \in 0..1 : n \notin Nodes

VARIABLES
    rt,         \* rt[n]: the contacts of node n's routing table
    db,         \* db[n]: the items of node n's local store
    mode,       \* mode[n]: how the transport treats packets addressed to n
    up,         \* the nodes of the network
    crashed,    \* nodes whose process died on a run-time panic
    net,        \* requests in flight
    pc,         \* position of the client operation in progress
    me,         \* the node the operation runs on
    call,       \* the Call of the walk: kind, target, accumulated value
    op,         \* the entry point in progress and its argument
    sl,         \* walk: the shortlist
    sent,       \* walk: NodeIDs an RPC was sent to
    rest,       \* walk: exhaustive pass flag
    contacts,   \* walk: sorted copy of the shortlist
    closest,    \* walk: closest node of the previous cycle
    await,      \* walk: callees of the current wave
    nrecv,      \* walk: completions received in the current wave
    out,        \* what the last operation returned to its caller
    hist,       \* observations of the walk in progress
    nops,       \* operations started so far
    puts        \* the Puts that returned: node, value, key

vars == <<rt, db, mode, up, crashed, net, pc, me, call, op, sl, sent, rest,
          contacts, closest, await, nrecv, out, hist, nops, puts>>

---------------------------------------------------------------------------
(***************************************************************************)
(* Identifiers, distance, hash.                                            *)
(***************************************************************************)
RECURSIVE Xor(_, _)
Xor(a, b) ==
    IF a = 0 THEN b
    ELSE IF b = 0 THEN a
    ELSE (((a % 2) + (b % 2)) % 2) + (2 * Xor(a \div 2, b \div 2))

RECURSIVE Pow2(_)
Pow2(n) == IF n = 0 THEN 1 ELSE 2 * Pow2(n - 1)

\* The identifiers of IdBits bits, and the distance between any two of them.
IdSpace == 0..(Pow2(IdBits) - 1)

XorTable == [a \in IdSpace |-> [b \in IdSpace |-> Xor(a, b)]]

Distance(a, b) == XorTable[a][b]

\* Number of leading bits two identifiers share.
RECURSIVE LeadingZeros(_, _)
LeadingZeros(d, bits) ==
    IF bits = 0 THEN 0
    ELSE IF d >= Pow2(bits - 1) THEN 0
    ELSE 1 + LeadingZeros(d, bits - 1)

BucketIndex(self, other) == LeadingZeros(Distance(self, other), IdBits)

\* blake2b.Sum256 on the values of the model: an injective table whose
\* images are no node's identifier.
Hash(v) ==
    CASE v = "x" -> 5
      [] v = "y" -> 3
      [] v = Forged -> 6
      [] OTHER -> 0

Keys == {Hash(v) : v \in Values}

---------------------------------------------------------------------------
(***************************************************************************)
(* Routing table and shortlist.                                            *)
(***************************************************************************)
\* Shortlist.SortedContacts: the contacts of S by ascending distance to
\* target; the i-th is the one with i - 1 contacts closer than itself.
SortedContacts(S, target) ==
    IF S = {} THEN <<>>
    ELSE [i \in 1..Cardinality(S) |->
            CHOOSE x \in S :
                Cardinality({y \in S :
                    Distance(y, target) < Distance(x, target)}) = i - 1]

Range(s) == {s[i] : i \in 1..Len(s)}

Min(a, b) == IF a < b THEN a ELSE b

\* The n contacts of S closest to target.
Closest(S, target, n) ==
    LET s == SortedContacts(S, target)
    IN  {s[i] : i \in 1..Min(n, Len(s))}

NClosest(table, target, n) == Closest(table, target, n)

\* Shortlist.Add: set union on NodeID, then truncation to the k closest.
ShortlistAdd(S, cs, target) == Closest(S \cup cs, target, k)

ShortlistRemove(S, c) == S \ {c}

\* Table.Add: no-op for the local node; a full bucket drops the newcomer.
TableAdd(table, self, c) ==
    IF c = self \/ c \in table THEN table
    ELSE IF Cardinality({x \in table :
                BucketIndex(self, x) = BucketIndex(self, c)}) < k
         THEN table \cup {c}
         ELSE table

\* Database.AddItem: the key is the hash of the value; the entry of that
\* key is replaced.
AddItem(items, value, origin) ==
    {e \in items : e.key # Hash(value)}
        \cup {[key |-> Hash(value), value |-> value, origin |-> origin]}

GetItem(items, key) ==
    IF \E e \in items : e.key = key
    THEN (CHOOSE e \in items : e.key = key).value
    ELSE NoValue

---------------------------------------------------------------------------
(***************************************************************************)
(* Transport.                                                              *)
(***************************************************************************)
\* A send to addr fails synchronously (call.Do, nw.Store, nw.SendNodes
\* return an error).
SendFails(addr) == mode[addr] = "senderr"

\* Packets addressed to n are read and served.
Serving(n) == mode[n] \in {"ok", "liar"} /\ n \notin crashed

\* A node that answers the requests it is sent with what it has.
Responsive(n) == mode[n] = "ok" /\ n \notin crashed

Request(type, from, to, key, value) ==
    [type |-> type, from |-> from, to |-> to, key |-> key, value |-> value]

\* A completion read from the results channel: ok = FALSE is the nil Result
\* of a timed-out call.
Completion(callee, ok, cs, value) ==
    [callee |-> callee, ok |-> ok, closest |-> cs, value |-> value]

NilResult(callee) == Completion(callee, FALSE, <<>>, NoValue)

\* The nodes known to R or to a responsive node of R, and so on.
RECURSIVE Reach(_)
Reach(R) ==
    LET next == R \cup UNION {rt[x] : x \in {y \in R : Responsive(y)}}
    IN  IF next = R THEN R ELSE Reach(next)

\* The responsive nodes other than n that hold key and that n can reach
\* through responsive contacts.
Holders(n, key) ==
    {h \in Reach(rt[n]) \ {n} :
        Responsive(h) /\ GetItem(db[h], key) # NoValue}

\* What is observed of the walk in progress:
\*   holders    for a Get: the nodes that held the key and could be reached
\*              when the walk was seeded
\*   seed       the shortlist the walk was seeded with
\*   dispatched how many times call.Do succeeded, per callee
\*   skipped    contacts the dispatch loop passed over as already contacted
\*   waves      dispatch loops run
\*   timedOut   callees whose completion was the nil Result
\*   added      callees the walk passed to rt.Add
\*   merged     callees whose contacts the walk passed to sl.Add
\*   valueFrom  callees whose processed response carried a value
\*   forgedFrom those of them whose value does not hash to the key
\*   storeTo    contacts nw.Store was called for; stored: without error
\*   local      for a Get: the value the node's own store held for the key
\*              when the walk was seeded
\*   slStart    the shortlist at the end of the last dispatch loop
\*   done       the completions received in the current wave
\*   learned    the contacts each callee's response carried
\*   undrained  callees whose completion the walk stopped waiting for
\*   progress   the last cycle ended with a new closest contact
NoHist ==
    [holders |-> {}, seed |-> {}, dispatched |-> [n \in up |-> 0],
     skipped |-> {}, waves |-> 0, timedOut |-> {}, added |-> {},
     merged |-> {}, valueFrom |-> {}, forgedFrom |-> {}, storeTo |-> {},
     stored |-> {}, local |-> NoValue, slStart |-> {}, done |-> {},
     learned |-> [n \in up |-> {}], undrained |-> {}, progress |-> FALSE]

Running(kind, n) ==
    [op |-> kind, node |-> n, status |-> "running", hash |-> 0,
     value |-> NoValue, err |-> FALSE, contacts |-> <<>>]

---------------------------------------------------------------------------
(***************************************************************************)
(* The walk.                                                               *)
(***************************************************************************)
\* walk, lines 121-143: seed the shortlist with the alpha closest contacts
\* of the routing table.  contacts[0] of an empty slice is a run-time panic
\* that ends the process.
Seed(n, kind, callKind, target, value) ==
    LET seed == NClosest(rt[n], target, alpha)
        sorted == SortedContacts(seed, target)
    IN  /\ pc = "idle"
        /\ nops < MaxOps
        /\ nops' = nops + 1
        /\ n \notin crashed
        /\ me' = n
        /\ op' = [kind |-> kind, value |-> value]
        /\ call' = [kind |-> callKind, target |-> target, value |-> NoValue]
        /\ sl' = seed
        /\ sent' = {}
        /\ rest' = FALSE
        /\ contacts' = sorted
        /\ await' = {}
        /\ nrecv' = 0
        /\ hist' = [NoHist EXCEPT !.seed = seed,
                !.holders = IF kind = "get" THEN Holders(n, target) ELSE {},
                !.local = IF kind = "get" THEN GetItem(db[n], target)
                          ELSE NoValue]
        /\ IF sorted = <<>>
           THEN /\ pc' = "idle"
                /\ crashed' = crashed \cup {n}
                /\ closest' = NoNode
                /\ out' = [Running(kind, n) EXCEPT !.status = "panic"]
           ELSE /\ pc' = "dispatch"
                /\ crashed' = crashed
                /\ closest' = sorted[1]
                /\ out' = Running(kind, n)
        /\ UNCHANGED <<rt, db, mode, up, net, puts>>

\* Put -> iterativeStore, lines 229-232.
Put(n, v) == Seed(n, "put", "FIND_NODES", Hash(v), v)

\* Get -> iterativeFindValue, lines 254-256.
Get(n, key) == Seed(n, "get", "FIND_VALUE", key, NoValue)

\* Join -> iterativeFindNodes, lines 100-101: a node lookup of the node itself.
Join(n) == Seed(n, "join", "FIND_NODES", n, NoValue)

\* walk, line 151: the contacts the dispatch loop looks at.
Considered(cs, exhaustive) ==
    {cs[i] : i \in {j \in 1..Len(cs) : j - 1 < alpha \/ exhaustive}}

\* The dispatch loop without its test for the local node.
SkippedSentOnly(c, alreadySent, self) == c \in alreadySent

\* The dispatch loop without its test of the sent map.
SkippedSelfOnly(c, alreadySent, self) == c = self

\* walk, line 154: already contacted contacts and the local node are skipped.
Skipped(c, alreadySent, self) == c \in alreadySent \/ c = self

\* walk, lines 150-177: the dispatch loop of one wave.
Dispatch ==
    LET wave == {c \in Considered(contacts, rest) : ~Skipped(c, sent, me)}
        failed == {c \in wave : SendFails(c)}
        called == wave \ failed
    IN  /\ pc = "dispatch"
        /\ hist.waves < MaxWaves
        /\ sl' = sl \ failed
        /\ sent' = sent \cup called
        /\ await' = called
        /\ nrecv' = 0
        /\ net' = net \cup
                {Request(call.kind, me, c, call.target, NoValue) : c \in called}
        /\ hist' = [hist EXCEPT
                !.dispatched = [n \in up |->
                    IF n \in called THEN @[n] + 1 ELSE @[n]],
                !.skipped = @ \cup
                    {c \in Considered(contacts, rest) : c \in sent},
                !.waves = @ + 1,
                !.slStart = sl \ failed,
                !.done = {}]
        /\ pc' = IF called = {} THEN "check" ELSE "collect"
        /\ UNCHANGED <<rt, db, mode, up, crashed, me, call, op, rest, contacts,
                       closest, out, nops, puts>>

\* FindNodesCall.Result never stops the walk; FindValueCall.Result keeps the
\* value of a response that carries one and stops the walk.
CallResult(c, r) ==
    IF c.kind = "FIND_VALUE" /\ r.value # NoValue
    THEN [call |-> [c EXCEPT !.value = r.value], stop |-> TRUE]
    ELSE [call |-> c, stop |-> FALSE]

\* A walk that adds the callee of every completion to the routing table.
CollectTableAlways(table, self, r) == TableAdd(table, self, r.callee)

\* walk, lines 186-189 and 199-202: the local routing table once completion
\* r is processed; only a non-nil result adds its callee.
CollectTable(table, self, r) ==
    IF r.ok THEN TableAdd(table, self, r.callee) ELSE table

\* walk, lines 190-192 and 199-202: the shortlist once completion r is
\* processed.
CollectShortlist(S, r, target) ==
    IF r.ok THEN ShortlistAdd(S, Range(r.closest), target)
    ELSE ShortlistRemove(S, r.callee)

\* walk, lines 181-203: the completion r of request m is received and folded
\* in; tables are the routing tables once the callee has served m.  A stop
\* leaves the loop: the requests of the wave still unanswered are never
\* waited for again.
Collect(m, r, tables) ==
    LET res == CallResult(call, r)
        stop == r.ok /\ res.stop
        last == nrecv + 1 = Cardinality(await)
    IN  /\ nrecv' = nrecv + 1
        /\ IF r.ok
           THEN /\ rt' = [tables EXCEPT ![me] = CollectTable(@, me, r)]
                /\ sl' = CollectShortlist(sl, r, call.target)
                /\ call' = res.call
                /\ hist' = [hist EXCEPT
                        !.done = @ \cup {r},
                        !.learned[r.callee] = @ \cup Range(r.closest),
                        !.undrained = @ \cup
                            IF res.stop THEN await \ ({r.callee} \cup
                                {x.callee : x \in hist.done})
                            ELSE {},
                        !.added = @ \cup {r.callee},
                        !.merged = @ \cup {r.callee},
                        !.valueFrom = IF r.value # NoValue
                                      THEN @ \cup {r.callee} ELSE @,
                        !.forgedFrom = IF r.value # NoValue
                                          /\ Hash(r.value) # call.target
                                       THEN @ \cup {r.callee} ELSE @]
           ELSE /\ rt' = [tables EXCEPT ![me] = CollectTable(@, me, r)]
                /\ sl' = CollectShortlist(sl, r, call.target)
                /\ call' = call
                /\ hist' = [hist EXCEPT
                        !.done = @ \cup {r},
                        !.timedOut = @ \cup {r.callee}]
        /\ net' = IF stop
                  THEN {x \in net : x.type = "STORE"}
                  ELSE net \ {m}
        /\ pc' = IF stop \/ last THEN "check" ELSE "collect"
        /\ UNCHANGED <<db, mode, up, crashed, me, op, sent, rest, contacts,
                       closest, await, out, nops, puts>>

\* A Put that names its value after the closest contact found.
StoreHashOfClosest(value, cs) == cs[1]

\* iterativeStore, line 230: the key of a Put is the hash of its value,
\* whatever contacts cs the walk returned.
StoreHash(value, cs) == Hash(value)

\* iterativeStore, lines 237-245: the STORE requests of a Put that leave the
\* node and are not dropped on the way.
StoreRequests(cs, from, hash, value) ==
    {Request("STORE", from, c, hash, value) :
        c \in {x \in cs : ~SendFails(x) /\ Serving(x)}}

\* iterativeFindValue, lines 256-259: the value and error Get returns once
\* the walk has returned with walkErr.
FindValueReturn(c, walkErr) ==
    [value |-> IF walkErr THEN NoValue ELSE c.value, err |-> walkErr]

\* The end of a cycle with the test of the closest node inverted: the walk
\* returns when a new closest node was found.
CheckStepReturnOnCloser(closestNode, first, exhaustive) ==
    IF closestNode # first THEN "return"
    ELSE IF ~exhaustive THEN "rest"
    ELSE "return"

\* The end of a cycle without the return of line 216.
CheckStepNoReturn(closestNode, first, exhaustive) ==
    IF closestNode # first THEN "closer" ELSE "rest"

\* walk, lines 207-221: what the walk does at the end of a cycle.
CheckStep(closestNode, first, exhaustive) ==
    IF closestNode # first THEN "closer"
    ELSE IF ~exhaustive THEN "rest"
    ELSE "return"

\* walk, lines 205-221, and what the entry point does once the walk has
\* returned (lines 102-107, 237-251, 256-259).  walk never returns an error.
Check ==
    LET sorted == SortedContacts(sl, call.target)
        first == sorted[1]
        returned == [out EXCEPT !.status = "returned", !.contacts = sorted]
    IN  /\ pc = "check"
        /\ contacts' = sorted
        /\ IF sorted = <<>>
           THEN /\ pc' = "idle"
                /\ crashed' = crashed \cup {me}
                /\ out' = [out EXCEPT !.status = "panic"]
                /\ UNCHANGED <<rest, closest, net, hist, puts>>
           ELSE IF CheckStep(closest, first, rest) = "closer"
           THEN /\ closest' = first
                /\ pc' = "dispatch"
                /\ hist' = [hist EXCEPT !.progress = TRUE]
                /\ UNCHANGED <<rest, crashed, out, net, puts>>
           ELSE IF CheckStep(closest, first, rest) = "rest"
           THEN /\ rest' = TRUE
                /\ pc' = "dispatch"
                /\ hist' = [hist EXCEPT !.progress = FALSE]
                /\ UNCHANGED <<closest, crashed, out, net, puts>>
           ELSE /\ pc' = "idle"
                /\ UNCHANGED <<rest, closest, crashed>>
                /\ IF op.kind = "put"
                   THEN /\ net' = net \cup StoreRequests(Range(sorted), me,
                                      StoreHash(op.value, sorted), op.value)
                        /\ hist' = [hist EXCEPT
                              !.storeTo = Range(sorted),
                              !.stored = {c \in Range(sorted) : ~SendFails(c)}]
                        /\ out' = [returned EXCEPT
                              !.hash = StoreHash(op.value, sorted)]
                        /\ puts' = puts \cup
                              {[node |-> me, value |-> op.value,
                                key |-> StoreHash(op.value, sorted)]}
                   ELSE IF op.kind = "get"
                   THEN /\ out' = [returned EXCEPT
                              !.value = FindValueReturn(call, FALSE).value,
                              !.err = FindValueReturn(call, FALSE).err]
                        /\ UNCHANGED <<net, hist, puts>>
                   ELSE /\ out' = returned
                        /\ UNCHANGED <<net, hist, puts>>
        /\ UNCHANGED <<rt, db, mode, up, me, call, op, sl, sent, await, nrecv,
                       nops>>

---------------------------------------------------------------------------
(***************************************************************************)
(* Inbound requests.                                                       *)
(***************************************************************************)
\* The walk of m.from waits for the completion of request m.
Awaited(m) ==
    /\ m \in net
    /\ m.type # "STORE"
    /\ pc = "collect"
    /\ m.from = me
    /\ m.to \in await

\* The reply to m reaches its caller: SendNodes returned no error and the
\* caller reads its packets.
Replied(m) == ~SendFails(m.from) /\ Serving(m.from)

\* A FIND_NODES handler that picks the contacts of its reply before it adds
\* the sender to the routing table.
FindNodesRequestHandlerReplyFirst(m) ==
    /\ Awaited(m)
    /\ m.type = "FIND_NODES"
    /\ Serving(m.to)
    /\ \E reply \in {SortedContacts(NClosest(rt[m.to], m.key, k), m.key)} :
       \E table \in {TableAdd(rt[m.to], m.to, m.from)} :
       \E r \in {IF Replied(m) THEN Completion(m.to, TRUE, reply, NoValue)
                 ELSE NilResult(m.to)} :
            Collect(m, r, [rt EXCEPT ![m.to] = table])

\* findNodesRequestHandler, lines 54-71, at node m.to.  Without a reply the
\* caller is left to its timeout.
FindNodesRequestHandler(m) ==
    /\ Awaited(m)
    /\ m.type = "FIND_NODES"
    /\ Serving(m.to)
    /\ \E table \in {TableAdd(rt[m.to], m.to, m.from)} :
       \E reply \in {SortedContacts(NClosest(table, m.key, k), m.key)} :
       \E r \in {IF Replied(m) THEN Completion(m.to, TRUE, reply, NoValue)
                 ELSE NilResult(m.to)} :
            Collect(m, r, [rt EXCEPT ![m.to] = table])

\* The peer's side of FIND_VALUE: the value of the key if the peer holds
\* it, and the contacts closest to the key.
FindValueRequestHandler(m) ==
    /\ Awaited(m)
    /\ m.type = "FIND_VALUE"
    /\ Serving(m.to)
    /\ \E reply \in {SortedContacts(NClosest(rt[m.to], m.key, k), m.key)} :
       \E value \in {IF mode[m.to] = "liar" THEN Forged
                     ELSE GetItem(db[m.to], m.key)} :
       \E r \in {IF Replied(m) THEN Completion(m.to, TRUE, reply, value)
                 ELSE NilResult(m.to)} :
            Collect(m, r, rt)

\* The transport's deadline of an awaited call passes: the callee serves no
\* packet, the caller reads a nil Result.
Timeout(m) ==
    /\ Awaited(m)
    /\ ~Serving(m.to)
    /\ \E r \in {NilResult(m.to)} : Collect(m, r, rt)

\* A STORE handler that files the item beside the ones the store holds.
StoreRequestHandlerAppend(m) ==
    /\ m \in net
    /\ m.type = "STORE"
    /\ Serving(m.to)
    /\ rt' = [rt EXCEPT ![m.to] = TableAdd(@, m.to, m.from)]
    /\ db' = [db EXCEPT ![m.to] = @ \cup
                {[key |-> m.key, value |-> m.value, origin |-> m.from]}]
    /\ net' = net \ {m}
    /\ UNCHANGED <<mode, up, crashed, pc, me, call, op, sl, sent, rest, contacts,
                   closest, await, nrecv, out, hist, nops, puts>>

\* storeRequestHandler, lines 73-84, at node m.to.
StoreRequestHandler(m) ==
    /\ m \in net
    /\ m.type = "STORE"
    /\ Serving(m.to)
    /\ rt' = [rt EXCEPT ![m.to] = TableAdd(@, m.to, m.from)]
    /\ db' = [db EXCEPT ![m.to] = AddItem(@, m.value, m.from)]
    /\ net' = net \ {m}
    /\ UNCHANGED <<mode, up, crashed, pc, me, call, op, sl, sent, rest, contacts,
                   closest, await, nrecv, out, hist, nops, puts>>

---------------------------------------------------------------------------
(***************************************************************************)
(* The network after construction.                                         *)
(***************************************************************************)
\* New(me, others, nw), lines 27-52: the contacts each node's routing table
\* holds once the network is up.
\*   Ring     : every node knows the next one, 1 -> 7 -> 2 -> 4 -> 1
\*   Line     : 1 -> 4 -> 2 -> 7, and 7 knows nobody
\*   Mesh     : every node knows every other node
Ring == [n \in Nodes |-> CASE n = 1 -> {7} [] n = 7 -> {2} [] n = 2 -> {4}
                            [] OTHER -> {1}]
Line == [n \in Nodes |-> CASE n = 1 -> {4} [] n = 4 -> {2} [] n = 2 -> {7}
                            [] OTHER -> {}]
Mesh == [n \in Nodes |-> Nodes \ {n}]
Topologies == {Ring, Line, Mesh}

\* No operation has started.
Idle ==
    /\ db = [n \in up |-> {}]
    /\ crashed = {}
    /\ net = {}
    /\ pc = "idle"
    /\ me = NoNode
    /\ call = [kind |-> "FIND_NODES", target |-> 0, value |-> NoValue]
    /\ op = [kind |-> "none", value |-> NoValue]
    /\ sl = {}
    /\ sent = {}
    /\ rest = FALSE
    /\ contacts = <<>>
    /\ closest = NoNode
    /\ await = {}
    /\ nrecv = 0
    /\ out = [Running("none", NoNode) EXCEPT !.status = "none"]
    /\ hist = NoHist
    /\ puts = {}

Init ==
    /\ up = Nodes
    /\ rt \in Topologies
    /\ mode \in {f \in [Nodes -> Modes] :
            Cardinality({n \in Nodes : f[n] # "ok"}) <= MaxFaulty}
    /\ nops = 0
    /\ Idle

\* The wider network, in which a single operation is started: 1 knows 7,
\* 7 knows 2, and 2 knows 4, 8, 9 and 10, which know nobody.
Wide == [n \in WideNodes |-> CASE n = 1 -> {7} [] n = 7 -> {2}
                                [] n = 2 -> {4, 8, 9, 10} [] OTHER -> {}]

InitWide ==
    /\ up = WideNodes
    /\ rt = Wide
    /\ mode \in {f \in [WideNodes -> Modes] :
            Cardinality({n \in WideNodes : f[n] # "ok"}) <= MaxFaulty}
    /\ nops = MaxOps - 1
    /\ Idle

Next ==
    \/ \E n \in up, v \in Values : Put(n, v)
    \/ \E n \in up, key \in Keys : Get(n, key)
    \/ \E n \in up : Join(n)
    \/ Dispatch
    \/ Check
    \/ \E m \in net : FindNodesRequestHandler(m)
    \/ \E m \in net : FindValueRequestHandler(m)
    \/ \E m \in net : Timeout(m)
    \/ \E m \in net : StoreRequestHandler(m)

Spec == Init /\ [][Next]_vars

WideSpec == InitWide /\ [][Next]_vars

\* A network in which every node answers, with every task of the walk and
\* every handler scheduled again and again.
InitAnswering == Init /\ \A n \in up : mode[n] = "ok"

Fairness ==
    /\ WF_vars(Dispatch)
    /\ WF_vars(Check)
    /\ WF_vars(\E m \in net : FindNodesRequestHandler(m))
    /\ WF_vars(\E m \in net : FindValueRequestHandler(m))
    /\ WF_vars(\E m \in net : Timeout(m))
    /\ WF_vars(\E m \in net : StoreRequestHandler(m))

LiveSpec == InitAnswering /\ [][Next]_vars /\ Fairness

---------------------------------------------------------------------------
(***************************************************************************)
(* Properties.                                                             *)
(***************************************************************************)
Returned == pc = "idle" /\ out.status = "returned"

Queried == {n \in up : hist.dispatched[n] > 0}

\* C2: every Put(v) that returned, returned Hash(v), whatever contacts the
\* walk returned and however many STOREs failed; Puts of the same value
\* returned equal keys.
C2_KeyDerivation ==
    \A p \in puts :
        /\ p.key = Hash(p.value)
        /\ \A q \in puts : q.value = p.value => q.key = p.key

\* Two Puts of one value on different nodes have returned, the last with a
\* STORE that failed.
C2_Witness ==
    /\ Returned /\ out.op = "put"
    /\ hist.stored # hist.storeTo
    /\ \E p, q \in puts : p.node # q.node /\ p.value = q.value

\* C3: a Get whose walk returned without any response carrying a value
\* fails with an error.
C3_NotFound ==
    (Returned /\ out.op = "get" /\ hist.valueFrom = {}) => out.err

\* C4: a Get never returns a value whose hash is not the key, and the
\* sender of such a value is neither added to the routing table nor are its
\* contacts merged into the shortlist.
C4_ValueIntegrity ==
    /\ (Returned /\ out.op = "get" /\ out.value # NoValue)
            => Hash(out.value) = call.target
    /\ hist.forgedFrom \cap (hist.added \cup hist.merged) = {}

\* C6: no RPC of a walk is dispatched to the local node.
C6_NeverQueriesMe ==
    /\ me \in up => (hist.dispatched[me] = 0 /\ me \notin await)
    /\ \A m \in net : m.type # "STORE" => m.to # m.from

\* A dispatch loop has just passed over the local node, which a response
\* merged into the shortlist.
C6_Witness ==
    /\ pc \in {"collect", "check"}
    /\ hist.waves >= 2
    /\ me \in Considered(contacts, rest)
    /\ me \notin hist.seed

\* C7: within one walk no contact is dispatched an RPC more than once.
C7_AtMostOnce == \A n \in up : hist.dispatched[n] <= 1

\* A contact that timed out was put back into the shortlist by a later
\* response and passed over by a later dispatch loop.
C7_Witness == hist.timedOut \cap hist.skipped # {}

\* C8: a contact that timed out during the walk is not in the list the walk
\* returns, and Put calls no STORE for it.
C8_SilentExcluded ==
    Returned =>
        \A c \in hist.timedOut :
            c \notin Range(out.contacts) /\ c \notin hist.storeTo

\* C9: a walk seeded with no contact returns the empty list without
\* dispatching any RPC.
C9_EmptySeed ==
    (out.status # "none" /\ hist.seed = {}) =>
        /\ out.status = "returned"
        /\ out.contacts = <<>>
        /\ hist.waves = 0

\* C10: a walk all of whose queried contacts timed out still returns; Put
\* then returns the derived key with no successful STORE, Get an error.
C10_LookupEmpty ==
    (pc = "idle" /\ Queried # {} /\ Queried \subseteq hist.timedOut) =>
        /\ out.status = "returned"
        /\ out.op = "put" => (out.hash = Hash(op.value) /\ hist.stored = {})
        /\ out.op = "get" => out.err

\* C1: once a Put(v) has returned key, a Get(key) that returned on a node
\* from which a responsive node holding v could be reached when its walk
\* started, in a network without forged answers, returned v.
C1_RoundTrip ==
    (Returned /\ out.op = "get" /\ mode[me] = "ok" /\ hist.holders # {}
        /\ (\E p \in puts : p.key = call.target)
        /\ \A n \in up : mode[n] # "liar")
    => \E p \in puts : p.key = call.target /\ out.value = p.value

\* Every node answers every request it is sent.
AllAnswer == crashed = {} /\ \A n \in up : mode[n] = "ok"

\* C5: in a network whose nodes all answer, a walk seeded with at least one
\* contact returns, after at most as many waves as there are nodes plus one.
C5_WalkTerminates ==
    /\ \A i \in 1..MaxOps :
            (pc # "idle" /\ AllAnswer /\ nops = i) ~> (Returned /\ nops = i)
    /\ [](AllAnswer => hist.waves <= Cardinality(up) + 1)

\* A walk of several waves has returned in such a network.
C5_Witness == Returned /\ AllAnswer /\ hist.waves >= 4

\* C11: whatever STOREs a node has served, its store holds at most one entry
\* per key, and every entry's key is the hash of its value.
C11_IdempotentStore ==
    \A n \in up : \A e \in db[n] :
        /\ e.key = Hash(e.value)
        /\ \A f \in db[n] : f.key = e.key => f = e

\* Two Puts of one value on different nodes have returned and a node has
\* served the STORE of both, that of the first Put last.
C11_Witness ==
    /\ Returned /\ out.op = "put"
    /\ \E n \in hist.stored : \E e \in db[n] :
            /\ Serving(n)
            /\ e.origin # me
            /\ \E p \in puts : p.node = e.origin /\ p.value = op.value
            /\ e.value = op.value
            /\ \A m \in net : m.to # n

C13_EarlyStopDrain == Returned => hist.undrained = {}

\* The shortlist contacts that are unsent and not the local node, by
\* ascending distance to the target.
Unsent == SortedContacts({c \in sl : c \notin sent /\ c # me}, call.target)

\* C14: the contacts a dispatch loop calls are the first alpha of the unsent
\* contacts of the shortlist other than the local node while rest is false,
\* and all of them once rest is true.
C14_WaveComposition ==
    [][hist'.waves = hist.waves + 1 =>
        (sent' \ sent) \cup (sl \ sl') =
            IF rest THEN Range(Unsent)
            ELSE {Unsent[i] : i \in 1..Min(alpha, Len(Unsent))}]_vars

\* C15: the dispatch loop that follows a cycle ended with a new closest
\* contact calls at most alpha contacts.
C15_AlphaWideAfterProgress ==
    [][(hist'.waves = hist.waves + 1 /\ hist.progress) =>
        Cardinality((sent' \ sent) \cup (sl \ sl')) <= alpha]_vars

\* The orders in which the completions D can arrive.
Orders(D) ==
    {o \in [1..Cardinality(D) -> D] :
        \A i, j \in 1..Cardinality(D) : i # j => o[i] # o[j]}

\* The shortlist S once the completions of o are processed in that order.
RECURSIVE ShortlistAfter(_, _, _)
ShortlistAfter(S, o, target) ==
    IF o = <<>> THEN S
    ELSE ShortlistAfter(CollectShortlist(S, Head(o), target), Tail(o), target)

\* C16: at the end of a wave without early stop the shortlist is what every
\* order of arrival of the wave's completions yields, and every callee that
\* answered is in the routing table.
C16_Commutative ==
    (/\ pc = "check" /\ hist.done # {}
     /\ Cardinality(hist.done) = Cardinality(await)
     /\ \A r \in hist.done : r.callee \notin hist.valueFrom)
    => /\ \A o \in Orders(hist.done) :
            ShortlistAfter(hist.slStart, o, call.target) = sl
       /\ \A r \in hist.done : r.ok => r.callee \in rt[me]

\* C17: a step of the walk that processes a nil completion removes the callee
\* from the shortlist and leaves the node's routing table, its store and the
\* rest of the walk's state as they were; a step that processes a completion
\* changes the node's routing table only by adding the callee of a non-nil
\* result.
C17_TimeoutLocal ==
    [][\A r \in hist'.done \ hist.done :
        /\ ~r.ok =>
            /\ sl' = sl \ {r.callee}
            /\ rt'[me] = rt[me]
            /\ db'[me] = db[me]
            /\ <<sent, rest, contacts, closest, call, await>>'
                    = <<sent, rest, contacts, closest, call, await>>
        /\ rt'[me] # rt[me] =>
            r.ok /\ rt'[me] = rt[me] \cup {r.callee}]_vars

\* A callee learned during the walk has timed out and is not in the routing
\* table, to which another learned callee, answering, was added.
C17_Witness ==
    /\ pc \in {"collect", "check"}
    /\ \E r \in hist.done :
            ~r.ok /\ r.callee \notin rt[me] /\ r.callee \notin sl
    /\ \E a \in hist.added \ hist.seed : a \in rt[me]

\* The responsive contacts, other than the local node, that the only seed of
\* the walk answered with and that are closer to the target than that seed.
NewCloser ==
    {n \in up \ {me} :
        /\ Cardinality(hist.seed) = 1
        /\ Responsive(n)
        /\ \E f \in hist.seed :
                /\ n \in hist.learned[f]
                /\ Distance(n, call.target) < Distance(f, call.target)}

\* C18: a walk seeded with a single peer that answered with a responsive
\* contact closer to the target has, when it returns, run a further wave,
\* queried that contact and returns it.
C18_Convergence ==
    Returned =>
        \A n \in NewCloser :
            /\ hist.waves >= 2
            /\ hist.dispatched[n] = 1
            /\ n \in Range(out.contacts)

\* Such a walk has returned.
C18_Witness == Returned /\ NewCloser # {}

\* C19: every contact of the list a walk returns, other than the local node,
\* was sent an RPC during the walk.
C19_ReturnedWereQueried ==
    Returned => \A c \in Range(out.contacts) \ {me} : c \in sent

\* C20: a Get on a node whose own store held a value for the key when the
\* Get was invoked returns that value.
C20_GetServesLocal ==
    (Returned /\ out.op = "get" /\ hist.local # NoValue)
        => out.value = hist.local /\ ~out.err

===========================================================================
